---- MODULE Spec2Model ----
(***************************************************************************)
(* Model of the four-stage weather pipeline of src/main.py and             *)
(* src/tasks.py: fetch (one thread per city), analysis (one process per    *)
(* discovered file), aggregation (one thread) and selection (one process). *)
(*                                                                         *)
(* File names are modelled by their stem: the X of data/X_weather.json and *)
(* results/X_analysis.json.  A string is a sequence of tokens: "_", "/"    *)
(* and "data" are tokens of their own wherever they occur, so that split   *)
(* and replace act on every occurrence, also inside a word ("database" is  *)
(* <<"data", "base">>).  Temperatures are integer valued; an average is an *)
(* exact fraction in lowest terms, so that == and > on averages are those  *)
(* of the quotients.                                                       *)
(***************************************************************************)
EXTENDS Integers, Sequences, FiniteSets, TLC

\* ------------------------------------------------------------------ bounds

\* Longest list of days of one city in the day-rich inputs.
MaxDays == 3

\* Most cities of an aggregated dataset in the city-rich inputs.
MaxCities == 3

\* ------------------------------------------------------------- data model

\* Optional[float]: None is the empty sequence, a value v is <<v>>.
None == <<>>

Some(v) == <<v>>

\* models.DayData, the two fields the selection reads.
DayData(t, h) == [temp_avg |-> t, relevant_cond_hours |-> h]

\* models.CityData; kind tells the JSON shape of a decoded value.
CityData(days) == [kind |-> "city", days |-> days]

RECURSIVE GCD(_, _)
GCD(a, b) == IF b = 0 THEN a ELSE GCD(b, a % b)

Abs(x) == IF x < 0 THEN -x ELSE x

\* float("-inf"): the initial max_avg_temp.
NegInf == [n |-> -1, d |-> 0]

\* avg_temp before the loop has bound it.
Unbound == [n |-> 0, d |-> 0]

\* total_temp / days_count (days_count > 0), as a fraction in lowest terms.
TrueDiv(total, count) ==
    LET g == GCD(Abs(total), count)
    IN  [n |-> total \div g, d |-> count \div g]

\* a > b on averages, b possibly float("-inf").
FloatGt(a, b) ==
    IF b.d = 0 THEN a.d # 0
    ELSE a.d # 0 /\ a.n * b.d > b.n * a.d

\* a == b on averages.
FloatEq(a, b) == a = b

\* --------------------------------------------------------------- the state

VARIABLES
    pc,                \* main(): the orchestrator's position
    i,                 \* main.py: index of the next task of a start / join loop
    fetchPc,           \* DataFetchingTask.thread of each city: its position
    weather_data,      \* DataFetchingTask.weather_data of each city
    dataDir,           \* content of ./data/<stem>_weather.json, per stem
    dirs,              \* the directories among ./data and ./results that exist
    weather_files,     \* run_data_calculation_tasks: the glob's result
    calcPc,            \* DataCalculationTask.process of each file: its position
    calcData,          \* DataCalculationTask.calculate: data, per file
    resultsDir,        \* content of ./results/<stem>_analysis.json, per stem
    aggPc,             \* DataAggregationTask.thread: its position
    aggFiles,          \* aggregate: the files of the glob not yet merged
    aggregated_data,   \* aggregate: the mapping, in insertion order
    aggregatedFile,    \* content of ./aggregated_data.json
    selPc,             \* DataAnalyzingTask.process: its position
    cities,            \* analyze: weather_data.cities, in iteration order
    idx,               \* analyze: number of cities the for loop has processed
    best_cities,       \* analyze: best_cities
    max_avg_temp,      \* analyze: max_avg_temp
    max_clear_hours,   \* analyze: max_clear_hours
    days_count,        \* analyze: days_count of the last city processed
    avg_temp,          \* analyze: avg_temp of the last city processed
    total_clear_hours, \* analyze: total_clear_hours of the last city processed
    log                \* the log records emitted so far

mainVars == <<pc, i>>

fetchVars == <<fetchPc, weather_data, dataDir>>

calcVars == <<weather_files, calcPc, calcData, resultsDir>>

aggVars == <<aggPc, aggFiles, aggregated_data, aggregatedFile>>

selVars == <<selPc, cities, idx, best_cities, max_avg_temp, max_clear_hours,
             days_count, avg_temp, total_clear_hours>>

vars == <<mainVars, fetchVars, calcVars, aggVars, selVars, dirs, log>>

\* ------------------------------------------------- selection: the algorithm

\* analyze, lines 157-159: the per-city accumulators before the day loop.
CityAcc0 == [total_temp |-> 0, total_clear_hours |-> 0, days_count |-> 0]

\* Faulty variant of DayStep: every day counts toward days_count.
DayStepCountsAllDays(acc, day) ==
    [total_temp |-> IF day.temp_avg # None
                    THEN acc.total_temp + day.temp_avg[1]
                    ELSE acc.total_temp,
     days_count |-> acc.days_count + 1,
     total_clear_hours |-> acc.total_clear_hours + day.relevant_cond_hours]

\* Faulty variant of DayStep: hours are added only on days with a temperature.
DayStepHoursOnDefinedDays(acc, day) ==
    IF day.temp_avg # None
    THEN [total_temp |-> acc.total_temp + day.temp_avg[1],
          days_count |-> acc.days_count + 1,
          total_clear_hours |-> acc.total_clear_hours + day.relevant_cond_hours]
    ELSE acc

\* analyze, lines 162-165: the body of the day loop.
DayStep(acc, day) ==
    [total_temp |-> IF day.temp_avg # None
                    THEN acc.total_temp + day.temp_avg[1]
                    ELSE acc.total_temp,
     days_count |-> IF day.temp_avg # None
                    THEN acc.days_count + 1
                    ELSE acc.days_count,
     total_clear_hours |-> acc.total_clear_hours + day.relevant_cond_hours]

\* analyze, lines 161-165: the day loop over the first k days, left to right.
RECURSIVE DayLoop(_, _)
DayLoop(days, k) ==
    IF k = 0 THEN CityAcc0 ELSE DayStep(DayLoop(days, k - 1), days[k])

\* Faulty variant of IsBetter: the hours tie-break is dropped.
IsBetterTempOnly(avg, hours, best_avg, best_hours) ==
    FloatGt(avg, best_avg)

\* Faulty variant of IsBetter: an equal average with at least as many hours resets.
IsBetterOrEqual(avg, hours, best_avg, best_hours) ==
    \/ FloatGt(avg, best_avg)
    \/ FloatEq(avg, best_avg) /\ hours >= best_hours

\* analyze, lines 169-171: the city becomes the sole new best.
IsBetter(avg, hours, best_avg, best_hours) ==
    \/ FloatGt(avg, best_avg)
    \/ FloatEq(avg, best_avg) /\ hours > best_hours

\* analyze, lines 175-178: the city ties the best.
IsTie(avg, hours, best_avg, best_hours) ==
    FloatEq(avg, best_avg) /\ hours = best_hours

\* analyze, lines 152-154: the running best before the city loop.
Best0 == [best_cities |-> <<>>, max_avg_temp |-> NegInf, max_clear_hours |-> 0]

\* Faulty variant of CityPass: a city without any temperature competes with average 0.
CityPassZeroAverage(best, city, days) ==
    LET acc == DayLoop(days, Len(days))
        avg == TrueDiv(acc.total_temp,
                       IF acc.days_count > 0 THEN acc.days_count ELSE 1)
    IN  IF IsBetter(avg, acc.total_clear_hours,
                    best.max_avg_temp, best.max_clear_hours)
        THEN [best_cities |-> <<city>>,
              max_avg_temp |-> avg,
              max_clear_hours |-> acc.total_clear_hours]
        ELSE IF IsTie(avg, acc.total_clear_hours,
                      best.max_avg_temp, best.max_clear_hours)
        THEN [best EXCEPT !.best_cities = Append(@, city)]
        ELSE best

\* Faulty variant of CityPass: a tie appends, but a reset keeps the earlier members.
CityPassNeverResets(best, city, days) ==
    LET acc == DayLoop(days, Len(days))
    IN  IF acc.days_count > 0
        THEN LET avg == TrueDiv(acc.total_temp, acc.days_count)
             IN  IF IsBetter(avg, acc.total_clear_hours,
                             best.max_avg_temp, best.max_clear_hours)
                 THEN [best_cities |-> Append(best.best_cities, city),
                       max_avg_temp |-> avg,
                       max_clear_hours |-> acc.total_clear_hours]
                 ELSE IF IsTie(avg, acc.total_clear_hours,
                               best.max_avg_temp, best.max_clear_hours)
                 THEN [best EXCEPT !.best_cities = Append(@, city)]
                 ELSE best
        ELSE best

\* analyze, lines 157-179: one iteration of the city loop on the running best.
CityPass(best, city, days) ==
    LET acc == DayLoop(days, Len(days))
    IN  IF acc.days_count > 0
        THEN LET avg == TrueDiv(acc.total_temp, acc.days_count)
             IN  IF IsBetter(avg, acc.total_clear_hours,
                             best.max_avg_temp, best.max_clear_hours)
                 THEN [best_cities |-> <<city>>,
                       max_avg_temp |-> avg,
                       max_clear_hours |-> acc.total_clear_hours]
                 ELSE IF IsTie(avg, acc.total_clear_hours,
                               best.max_avg_temp, best.max_clear_hours)
                 THEN [best EXCEPT !.best_cities = Append(@, city)]
                 ELSE best
        ELSE best

\* analyze, lines 156-179: the city loop over the first k entries of a dataset.
RECURSIVE CityLoop(_, _)
CityLoop(entries, k) ==
    IF k = 0 THEN Best0
    ELSE CityPass(CityLoop(entries, k - 1), entries[k].city, entries[k].data.days)

\* ---------------------------------------------------- catalog, files, logs

\* utils.CITIES, in the dictionary's order; a name is a sequence of tokens.
CITIES == << <<"MOSCOW">>, <<"PARIS">> >>

\* A weather file left in ./data by an earlier run.
StaleStems == { <<"NEW", "_", "YORK">> }

\* What YandexWeatherAPI.get_forecasting can return when it returns data.
RawForecasts == {"rawGood", "rawOdd"}

\* weather_data before the client has answered.
Unset == "None"

\* An empty answer of the client.
Empty == "empty"

\* A file cut short by a failed write: not JSON.
Garbage == "garbage"

\* external.analyzer.analyze_json on one decoded forecast; rawOdd has not
\* the shape the analyzer reads.
AnalyzeRaises(raw) == raw \notin {"rawGood", "rawOld"}

AnalyzeJson(raw) ==
    IF raw = "rawGood"
    THEN CityData(<< DayData(Some(20), 3), DayData(None, 2) >>)
    ELSE CityData(<< DayData(Some(21), 1) >>)

\* A results file cut short by a failed write.
GarbageResult == [kind |-> "garbage", days |-> <<>>]

\* A results file holding JSON that is no CityData.
OtherResult == [kind |-> "other", days |-> <<>>]

EmptyDir == [s \in {} |-> Garbage]

EmptyResults == [s \in {} |-> GarbageResult]

\* ./aggregated_data.json: absent, cut short, or a JSON object in key order.
AbsentFile == [kind |-> "absent", entries |-> <<>>]

GarbageFile == [kind |-> "garbage", entries |-> <<>>]

JsonFile(entries) == [kind |-> "json", entries |-> entries]

\* One log record; key names the city or file, detail the values logged.
LogRecord(level, stage, key, kind, detail) ==
    [level |-> level, stage |-> stage, key |-> key, kind |-> kind,
     detail |-> detail]

\* main, lines 56, 59, 62 and 65: the record logged before a stage function
\* is called.
MainRecord(stage) == LogRecord("info", "main", <<>>, "Starting", [tasks |-> stage])

MainLogs(stage) == log' = log \cup {MainRecord(stage)}

\* tasks.py lines 33, 68, 106 and 143: the first statement of a unit logs
\* that it starts, with its city or file where it has one.
StartingRecord(stage, key) == LogRecord("info", stage, key, "Starting", <<>>)

Range(f) == {f[x] : x \in DOMAIN f}

\* A directory (stem -> content) after a write of content under stem.
WriteFile(dir, stem, content) ==
    [s \in DOMAIN dir \cup {stem} |-> IF s = stem THEN content ELSE dir[s]]

\* Faulty variant of GlobOrders: only the files this run's fetch saved.
GlobOrdersSavedOnly(dir) ==
    LET saved == {s \in DOMAIN dir :
                    \E r \in log : r.stage = "fetch" /\ r.key = s /\ r.kind = "Saved"}
        n == Cardinality(saved)
    IN  {q \in [1..n -> saved] : \A a, b \in 1..n : q[a] = q[b] => a = b}

\* Faulty variant of GlobOrders: at most two files are taken.
GlobOrdersCapped(dir) ==
    LET n == IF Cardinality(DOMAIN dir) > 2 THEN 2 ELSE Cardinality(DOMAIN dir)
    IN  {q \in [1..n -> DOMAIN dir] : \A a, b \in 1..n : q[a] = q[b] => a = b}

\* All orders in which a glob can list the files of a directory.
GlobOrders(dir) ==
    LET n == Cardinality(DOMAIN dir)
    IN  {q \in [1..n -> DOMAIN dir] : \A a, b \in 1..n : q[a] = q[b] => a = b}

\* main.py lines 16 and 25: the path of the weather file of a stem.
WeatherPath(stem) == <<"./", "data", "/">> \o stem \o <<"_", "weather.json">>

\* str.replace(old, new): every occurrence of old in s, from the left and
\* without overlap, becomes new.
RECURSIVE StrReplace(_, _, _)
StrReplace(s, old, new) ==
    IF Len(s) < Len(old) THEN s
    ELSE IF SubSeq(s, 1, Len(old)) = old
         THEN new \o StrReplace(SubSeq(s, Len(old) + 1, Len(s)), old, new)
         ELSE <<Head(s)>> \o StrReplace(Tail(s), old, new)

\* main.py line 29: the output path of an input path; both replacements act
\* on the whole path.
OutputPath(path) ==
    StrReplace(StrReplace(path, <<"data">>, <<"results">>),
               <<"_", "weather.json">>, <<"_", "analysis.json">>)

\* The stem of the analysis file that main.py line 29 derives for the
\* weather file of a stem: the output path without "./results/" and
\* "_analysis.json".
OutputStem(stem) ==
    LET out == OutputPath(WeatherPath(stem))
    IN  SubSeq(out, 4, Len(out) - 2)

\* tasks.py line 109: os.path.basename(file_name).split("_")[0], the part of
\* the file name before the first underscore.
CityKey(stem) ==
    LET name == stem \o <<"_", "analysis.json">>
        k == CHOOSE k \in DOMAIN name :
                name[k] = "_" /\ \A j \in 1..(k - 1) : name[j] # "_"
    IN  SubSeq(name, 1, k - 1)

\* os.makedirs(dirname, exist_ok=True), tasks.py lines 37 and 73: the
\* directories once directory d is made.
MakeDirs(d) == dirs \cup {d}

\* ------------------------------------------------------------- fetch stage

CitySet == Range(CITIES)

\* run_data_fetching_tasks, lines 18-19: start the next thread; after the
\* last one the join loop begins.  The first step follows main's line 56.
FetchStart ==
    /\ pc = "fetch_start"
    /\ \/ /\ i <= Len(CITIES)
          /\ fetchPc' = [fetchPc EXCEPT ![CITIES[i]] = "begin"]
          /\ i' = i + 1
          /\ pc' = pc
       \/ /\ i > Len(CITIES)
          /\ pc' = "fetch_join"
          /\ i' = 1
          /\ fetchPc' = fetchPc
    /\ IF i = 1 THEN MainLogs("fetch") ELSE log' = log
    /\ UNCHANGED <<weather_data, dataDir, calcVars, aggVars, selVars>>
    /\ UNCHANGED dirs

\* Faulty variant of ThreadJoined: join returns without waiting for the thread.
ThreadJoinedNoWait(c) == fetchPc[c] # "new"

\* DataFetchingTask.join, lines 53-55: thread.join() returns once the thread
\* has ended, however it ended.
ThreadJoined(c) == fetchPc[c] = "finished"

\* run_data_fetching_tasks, lines 20-21: join the next thread; after the last
\* one the function returns and main goes on to the analysis stage, which it
\* announces in the log.
FetchJoin ==
    /\ pc = "fetch_join"
    /\ \/ /\ i <= Len(CITIES)
          /\ ThreadJoined(CITIES[i])
          /\ i' = i + 1
          /\ pc' = pc
          /\ log' = log
       \/ /\ i > Len(CITIES)
          /\ pc' = "calc_glob"
          /\ i' = 1
          /\ MainLogs("calc")
    /\ UNCHANGED <<fetchVars, calcVars, aggVars, selVars>>
    /\ UNCHANGED dirs

\* Faulty variant of FetchFails: the exception of one unit ends every unit of the stage.
FetchFailsAbortsSiblings(c, level, kind) ==
    /\ fetchPc' = [x \in CitySet |-> "finished"]
    /\ log' = log \cup {LogRecord(level, "fetch", c, kind, <<>>)}

\* fetch_and_save_data, lines 45-48: an exception ends the unit of city c: in
\* the handler of lines 45-46 when it is an OSError, which every
\* RequestException is (the handler of lines 47-48 is never reached), through
\* threading's excepthook (a traceback, no log record) otherwise.
FetchFails(c, level, kind) ==
    /\ fetchPc' = [fetchPc EXCEPT ![c] = "finished"]
    /\ log' = log \cup {LogRecord(level, "fetch", c, kind, <<>>)}

\* fetch_and_save_data, line 33: the thread logs that it starts, then calls
\* the client.
FetchBegin(c) ==
    /\ fetchPc[c] = "begin"
    /\ fetchPc' = [fetchPc EXCEPT ![c] = "call"]
    /\ log' = log \cup {StartingRecord("fetch", c)}
    /\ UNCHANGED <<mainVars, weather_data, dataDir, dirs, calcVars, aggVars,
                   selVars>>

\* Faulty variant of ReturnsSilently: an empty answer is logged as an error.
ReturnsWithError(c) == FetchFails(c, "error", "Filesystem")

\* fetch_and_save_data, lines 35-36: nothing to save: the unit returns
\* before makedirs and open, with nothing logged.
ReturnsSilently(c) ==
    /\ fetchPc' = [fetchPc EXCEPT ![c] = "finished"]
    /\ log' = log

\* fetch_and_save_data, lines 34-36 and 45-46: the client's answer: data,
\* nothing, or an exception; a transport error of the client is logged as a
\* filesystem error.
GetForecasting(c) ==
    /\ fetchPc[c] = "call"
    /\ \/ \E raw \in RawForecasts :
            /\ weather_data' = [weather_data EXCEPT ![c] = raw]
            /\ fetchPc' = [fetchPc EXCEPT ![c] = "save"]
            /\ log' = log
       \/ /\ weather_data' = [weather_data EXCEPT ![c] = Empty]
          /\ ReturnsSilently(c)
       \/ /\ FetchFails(c, "error", "Filesystem")
          /\ weather_data' = weather_data
       \/ /\ FetchFails(c, "traceback", "Uncaught")
          /\ weather_data' = weather_data
    /\ UNCHANGED <<mainVars, dataDir, calcVars, aggVars, selVars>>
    /\ UNCHANGED dirs

\* fetch_and_save_data, lines 37-46: makedirs, open and json.dump.  An
\* OSError leaves the file as it was (makedirs failed, or open failed in the
\* directory just made) or cut short (the dump failed after open truncated
\* it).
SaveData(c) ==
    /\ fetchPc[c] = "save"
    /\ \/ /\ dataDir' = WriteFile(dataDir, c, weather_data[c])
          /\ dirs' = MakeDirs("data")
          /\ fetchPc' = [fetchPc EXCEPT ![c] = "finished"]
          /\ log' = log \cup {LogRecord("info", "fetch", c, "Saved", <<>>)}
       \/ /\ dataDir' = dataDir
          /\ dirs' \in {dirs, MakeDirs("data")}
          /\ FetchFails(c, "error", "Filesystem")
       \/ /\ dataDir' = WriteFile(dataDir, c, Garbage)
          /\ dirs' = MakeDirs("data")
          /\ FetchFails(c, "error", "Filesystem")
    /\ UNCHANGED <<mainVars, weather_data, calcVars, aggVars, selVars>>

\* ---------------------------------------------------------- analysis stage

\* run_data_calculation_tasks, lines 25-32: the glob lists the weather files
\* in some order and one task is built per file.
Glob ==
    /\ pc = "calc_glob"
    /\ \E files \in GlobOrders(dataDir) :
          /\ weather_files' = files
          /\ calcPc' = [s \in Range(files) |-> "new"]
          /\ calcData' = [s \in Range(files) |-> Unset]
    /\ pc' = "calc_start"
    /\ i' = 1
    /\ UNCHANGED <<fetchVars, resultsDir, aggVars, selVars, log>>
    /\ UNCHANGED dirs

\* run_data_calculation_tasks, lines 33-34.
CalcStart ==
    /\ pc = "calc_start"
    /\ \/ /\ i <= Len(weather_files)
          /\ calcPc' = [calcPc EXCEPT ![weather_files[i]] = "begin"]
          /\ i' = i + 1
          /\ pc' = pc
       \/ /\ i > Len(weather_files)
          /\ pc' = "calc_join"
          /\ i' = 1
          /\ calcPc' = calcPc
    /\ UNCHANGED <<fetchVars, weather_files, calcData, resultsDir, aggVars,
                   selVars, log>>
    /\ UNCHANGED dirs

\* Faulty variant of ProcessJoined: the join gives up on a running process.
ProcessJoinedWithTimeout(f) == calcPc[f] # "new"

\* DataCalculationTask.join, lines 94-95.
ProcessJoined(f) == calcPc[f] = "finished"

\* run_data_calculation_tasks, lines 35-36; after the last join the
\* function returns and main announces the aggregation stage.
CalcJoin ==
    /\ pc = "calc_join"
    /\ \/ /\ i <= Len(weather_files)
          /\ ProcessJoined(weather_files[i])
          /\ i' = i + 1
          /\ pc' = pc
          /\ log' = log
       \/ /\ i > Len(weather_files)
          /\ pc' = "agg_start"
          /\ i' = 1
          /\ MainLogs("aggregate")
    /\ UNCHANGED <<fetchVars, calcVars, aggVars, selVars>>
    /\ UNCHANGED dirs

\* The unit of file f ends with one record logged.
CalcEnds(f, level, kind) ==
    /\ calcPc' = [calcPc EXCEPT ![f] = "finished"]
    /\ log' = log \cup {LogRecord(level, "calc", f, kind, <<>>)}

\* Faulty variant of CalcFails: the exception of one unit ends every started unit.
CalcFailsAbortsSiblings(f, kind) ==
    /\ calcPc' = [g \in DOMAIN calcPc |->
                    IF calcPc[g] = "new" THEN "new" ELSE "finished"]
    /\ log' = log \cup {LogRecord("error", "calc", f, kind, <<>>)}

\* calculate, lines 78-89: an exception ends the unit in its own handler.
CalcFails(f, kind) == CalcEnds(f, "error", kind)

\* calculate, line 68: the process logs that it starts.
CalcBegin(f) ==
    /\ f \in DOMAIN calcPc
    /\ calcPc[f] = "begin"
    /\ calcPc' = [calcPc EXCEPT ![f] = "read"]
    /\ log' = log \cup {StartingRecord("calc", f)}
    /\ UNCHANGED <<mainVars, fetchVars, dirs, weather_files, calcData,
                   resultsDir, aggVars, selVars>>

\* calculate, lines 70-71 and 78-85: open and json.load of the input file.
CalcRead(f) ==
    /\ f \in DOMAIN calcPc
    /\ calcPc[f] = "read"
    /\ \/ /\ dataDir[f] # Garbage
          /\ calcData' = [calcData EXCEPT ![f] = dataDir[f]]
          /\ calcPc' = [calcPc EXCEPT ![f] = "analyze"]
          /\ log' = log
       \/ /\ dataDir[f] = Garbage
          /\ CalcFails(f, "JSON")
          /\ calcData' = calcData
       \/ /\ CalcFails(f, "Filesystem")
          /\ calcData' = calcData
    /\ UNCHANGED <<mainVars, fetchVars, weather_files, resultsDir, aggVars,
                   selVars>>
    /\ UNCHANGED dirs

\* calculate, lines 73-89: makedirs, analyze_json and dump_data.  The
\* directory is made before the analysis runs; a failed dump leaves the
\* output as it was or cut short.
CalcAnalyze(f) ==
    /\ f \in DOMAIN calcPc
    /\ calcPc[f] = "analyze"
    /\ \/ /\ ~AnalyzeRaises(calcData[f])
          /\ resultsDir' =
                WriteFile(resultsDir, OutputStem(f), AnalyzeJson(calcData[f]))
          /\ dirs' = MakeDirs("results")
          /\ CalcEnds(f, "info", "Saved")
       \/ /\ AnalyzeRaises(calcData[f])
          /\ CalcFails(f, "Other")
          /\ resultsDir' = resultsDir
          /\ dirs' = MakeDirs("results")
       \/ /\ CalcFails(f, "Filesystem")
          /\ resultsDir' = resultsDir
          /\ dirs' \in {dirs, MakeDirs("results")}
       \/ /\ ~AnalyzeRaises(calcData[f])
          /\ CalcFails(f, "Filesystem")
          /\ resultsDir' = WriteFile(resultsDir, OutputStem(f), GarbageResult)
          /\ dirs' = MakeDirs("results")
    /\ UNCHANGED <<mainVars, fetchVars, weather_files, calcData, aggVars,
                   selVars>>

\* ------------------------------------------------------- aggregation stage

\* run_data_aggregation_task, line 43.
AggStart ==
    /\ pc = "agg_start"
    /\ aggPc' = "begin"
    /\ pc' = "agg_join"
    /\ UNCHANGED <<i, fetchVars, calcVars, aggFiles, aggregated_data,
                   aggregatedFile, selVars, log>>
    /\ UNCHANGED dirs

\* run_data_aggregation_task, line 44, and DataAggregationTask.join; the
\* function returns and main announces the selection stage.
AggJoin ==
    /\ pc = "agg_join"
    /\ aggPc = "finished"
    /\ pc' = "sel_start"
    /\ MainLogs("select")
    /\ UNCHANGED <<i, fetchVars, calcVars, aggVars, selVars>>
    /\ UNCHANGED dirs

\* Faulty variant of DictPut: a key already there keeps its value.
DictPutKeepsFirst(entries, key, val) ==
    IF \E k \in DOMAIN entries : entries[k].city = key
    THEN entries
    ELSE Append(entries, [city |-> key, data |-> val])

\* aggregated_data[city_name] = data on a dict kept in insertion order: a
\* key already there keeps its place.
DictPut(entries, key, val) ==
    IF \E k \in DOMAIN entries : entries[k].city = key
    THEN [k \in DOMAIN entries |->
            IF entries[k].city = key THEN [city |-> key, data |-> val]
            ELSE entries[k]]
    ELSE Append(entries, [city |-> key, data |-> val])

\* aggregate, line 106: the thread logs that it starts.
AggBegin ==
    /\ aggPc = "begin"
    /\ aggPc' = "glob"
    /\ log' = log \cup {StartingRecord("aggregate", <<>>)}
    /\ UNCHANGED <<mainVars, fetchVars, dirs, calcVars, aggFiles,
                   aggregated_data, aggregatedFile, selVars>>

\* aggregate, lines 107-108: the empty mapping and the glob.
AggGlob ==
    /\ aggPc = "glob"
    /\ \E files \in GlobOrders(resultsDir) : aggFiles' = files
    /\ aggregated_data' = <<>>
    /\ aggPc' = "merge"
    /\ UNCHANGED <<mainVars, fetchVars, calcVars, aggregatedFile, selVars, log>>
    /\ UNCHANGED dirs

\* Faulty variant of AggEnds: a failed aggregation never ends.
AggEndsOnlyOnSuccess(level, kind) ==
    /\ level = "info"
    /\ aggPc' = "finished"
    /\ log' = log \cup {LogRecord(level, "aggregate", <<>>, kind, <<>>)}

\* aggregate, lines 117-125: the unit ends with one record logged, the
\* success or the exception its handlers caught.
AggEnds(level, kind) ==
    /\ aggPc' = "finished"
    /\ log' = log \cup {LogRecord(level, "aggregate", <<>>, kind, <<>>)}

\* Faulty variant of AggAborts: the failing file is logged and skipped.
AggAbortsSkipsFile(kind) ==
    /\ aggPc' = aggPc
    /\ log' = log \cup {LogRecord("error", "aggregate", <<>>, kind, <<>>)}
    /\ aggFiles' = Tail(aggFiles)
    /\ UNCHANGED <<aggregated_data, aggregatedFile>>

\* Faulty variant of AggAborts: the handler writes the mapping merged so far.
AggAbortsWritesPartial(kind) ==
    /\ AggEnds("error", kind)
    /\ aggregatedFile' = JsonFile(aggregated_data)
    /\ UNCHANGED <<aggFiles, aggregated_data>>

\* aggregate, lines 120-125: an exception raised inside the loop leaves it
\* for the handler: no further file is merged and lines 114-115 (the write)
\* are skipped.
AggAborts(kind) ==
    /\ AggEnds("error", kind)
    /\ UNCHANGED <<aggFiles, aggregated_data, aggregatedFile>>

\* aggregate, lines 109-112 and 120-125: one file of the glob is read and
\* merged; a failure ends the whole unit.
AggMerge ==
    /\ aggPc = "merge"
    /\ aggFiles # <<>>
    /\ LET f == Head(aggFiles)
       IN  \/ /\ resultsDir[f] # GarbageResult
              /\ aggregated_data' =
                    DictPut(aggregated_data, CityKey(f), resultsDir[f])
              /\ aggFiles' = Tail(aggFiles)
              /\ UNCHANGED <<aggPc, aggregatedFile, log>>
           \/ /\ resultsDir[f] = GarbageResult
              /\ AggAborts("JSON")
           \/ AggAborts("Filesystem")
    /\ UNCHANGED <<mainVars, fetchVars, calcVars, selVars>>
    /\ UNCHANGED dirs

\* aggregate, lines 114-121: the mapping is written once every file is merged.
AggWrite ==
    /\ aggPc = "merge"
    /\ aggFiles = <<>>
    /\ \/ /\ aggregatedFile' = JsonFile(aggregated_data)
          /\ AggEnds("info", "Saved")
       \/ /\ aggregatedFile' = aggregatedFile
          /\ AggEnds("error", "Filesystem")
       \/ /\ aggregatedFile' = GarbageFile
          /\ AggEnds("error", "Filesystem")
    /\ UNCHANGED <<mainVars, fetchVars, calcVars, aggFiles, aggregated_data,
                   selVars>>
    /\ UNCHANGED dirs

\* --------------------------------------------------------- selection stage

\* run_data_analyzing_task, line 49.
AnalyzingStart ==
    /\ pc = "sel_start"
    /\ selPc' = "begin"
    /\ pc' = "sel_join"
    /\ UNCHANGED <<i, fetchVars, calcVars, aggVars, cities, idx, best_cities,
                   max_avg_temp, max_clear_hours, days_count, avg_temp,
                   total_clear_hours, log>>
    /\ UNCHANGED dirs

\* run_data_analyzing_task, line 50, and DataAnalyzingTask.join: main returns.
AnalyzingJoin ==
    /\ pc = "sel_join"
    /\ selPc = "finished"
    /\ pc' = "done"
    /\ UNCHANGED <<i, fetchVars, calcVars, aggVars, selVars, log>>
    /\ UNCHANGED dirs

\* Faulty variant of Validates: the mapping is taken as it is decoded.
ValidatesAnything(entries) == entries = entries

\* analyze, line 143: the process logs that it starts.
SelBegin ==
    /\ selPc = "begin"
    /\ selPc' = "load"
    /\ log' = log \cup {StartingRecord("select", <<>>)}
    /\ UNCHANGED <<mainVars, fetchVars, dirs, calcVars, aggVars, cities, idx,
                   best_cities, max_avg_temp, max_clear_hours, days_count,
                   avg_temp, total_clear_hours>>

\* WeatherData(cities=data), models.py lines 15-20: every value is a CityData.
Validates(entries) == \A k \in DOMAIN entries : entries[k].data.kind = "city"

\* The selection unit ends with one record logged.
SelEnds(level, kind, detail) ==
    /\ selPc' = "finished"
    /\ log' = log \cup {LogRecord(level, "select", <<>>, kind, detail)}

\* analyze, lines 144-154 and 182-185: the aggregated file is read, decoded
\* and validated; then the running best is initialised.
SelLoad ==
    /\ selPc = "load"
    /\ \/ /\ aggregatedFile.kind = "json"
          /\ Validates(aggregatedFile.entries)
          /\ cities' = aggregatedFile.entries
          /\ idx' = 0
          /\ best_cities' = Best0.best_cities
          /\ max_avg_temp' = Best0.max_avg_temp
          /\ max_clear_hours' = Best0.max_clear_hours
          /\ selPc' = "loop"
          /\ log' = log
       \/ /\ aggregatedFile.kind = "json"
          /\ ~Validates(aggregatedFile.entries)
          /\ SelEnds("error", "Validation", <<>>)
          /\ UNCHANGED <<cities, idx, best_cities, max_avg_temp, max_clear_hours>>
       \/ /\ aggregatedFile.kind = "garbage"
          /\ SelEnds("error", "JSON", <<>>)
          /\ UNCHANGED <<cities, idx, best_cities, max_avg_temp, max_clear_hours>>
       \/ /\ SelEnds("error", "Filesystem", <<>>)
          /\ UNCHANGED <<cities, idx, best_cities, max_avg_temp, max_clear_hours>>
    /\ UNCHANGED <<mainVars, fetchVars, calcVars, aggVars, days_count, avg_temp,
                   total_clear_hours>>
    /\ UNCHANGED dirs

\* analyze, lines 156-179: the loop body for the next city of the dataset.
SelStep ==
    /\ selPc = "loop"
    /\ idx < Len(cities)
    /\ LET entry == cities[idx + 1]
           acc == DayLoop(entry.data.days, Len(entry.data.days))
           best == CityPass([best_cities |-> best_cities,
                             max_avg_temp |-> max_avg_temp,
                             max_clear_hours |-> max_clear_hours],
                            entry.city, entry.data.days)
       IN  /\ days_count' = acc.days_count
           /\ total_clear_hours' = acc.total_clear_hours
           /\ avg_temp' = IF acc.days_count > 0
                          THEN TrueDiv(acc.total_temp, acc.days_count)
                          ELSE avg_temp
           /\ best_cities' = best.best_cities
           /\ max_avg_temp' = best.max_avg_temp
           /\ max_clear_hours' = best.max_clear_hours
    /\ idx' = idx + 1
    /\ UNCHANGED <<mainVars, fetchVars, calcVars, aggVars, selPc, cities, log>>
    /\ UNCHANGED dirs

\* Faulty variant of ResultDetail: the maxima are logged with the names.
ResultDetailWithMaxima(names, avg, hours) ==
    [best_cities |-> names, max_avg_temp |-> avg, max_clear_hours |-> hours]

\* analyze, line 181: the one argument of the log call is
\* ", ".join(best_cities); the maxima are not passed to it.
ResultDetail(names, avg, hours) == [best_cities |-> names]

\* analyze, line 181: the result is logged and the unit ends.
SelFinish ==
    /\ selPc = "loop"
    /\ idx = Len(cities)
    /\ SelEnds("info", "Result",
               ResultDetail(best_cities, max_avg_temp, max_clear_hours))
    /\ UNCHANGED <<mainVars, fetchVars, calcVars, aggVars, cities, idx,
                   best_cities, max_avg_temp, max_clear_hours, days_count,
                   avg_temp, total_clear_hours>>
    /\ UNCHANGED dirs

\* ------------------------------------------------------ the specifications

\* The files a run can start from: none (a first run); those an earlier run
\* left (a weather file of a city no longer in the catalog, an analysis file
\* of another shape, an aggregated file); a weather file cut short; the
\* weather file an earlier run saved for a city of the catalog.
InitialFiles ==
    { [data |-> EmptyDir, results |-> EmptyResults, aggregated |-> AbsentFile,
       dirs |-> {}],
      [data |-> [s \in StaleStems |-> "rawOld"],
       results |-> [s \in StaleStems |-> OtherResult],
       dirs |-> {"data", "results"},
       aggregated |-> JsonFile(<< [city |-> <<"OLD">>,
                                   data |-> CityData(<< DayData(Some(15), 4) >>)] >>)],
      [data |-> [s \in {CITIES[1]} |-> Garbage],
       results |-> EmptyResults,
       aggregated |-> AbsentFile,
       dirs |-> {"data"}],
      [data |-> [s \in {CITIES[1]} |-> "rawOld"],
       results |-> EmptyResults,
       aggregated |-> AbsentFile,
       dirs |-> {"data"}] }

\* The state when main() is entered.
Init ==
    /\ pc = "fetch_start"
    /\ i = 1
    /\ fetchPc = [c \in CitySet |-> "new"]
    /\ weather_data = [c \in CitySet |-> Unset]
    /\ \E fs \in InitialFiles :
          /\ dataDir = fs.data
          /\ resultsDir = fs.results
          /\ aggregatedFile = fs.aggregated
          /\ dirs = fs.dirs
    /\ weather_files = <<>>
    /\ calcPc = [s \in {} |-> "new"]
    /\ calcData = [s \in {} |-> Unset]
    /\ aggPc = "new"
    /\ aggFiles = <<>>
    /\ aggregated_data = <<>>
    /\ selPc = "new"
    /\ cities = <<>>
    /\ idx = 0
    /\ best_cities = <<>>
    /\ max_avg_temp = NegInf
    /\ max_clear_hours = 0
    /\ days_count = 0
    /\ avg_temp = Unbound
    /\ total_clear_hours = 0
    /\ log = {}

Next ==
    \/ FetchStart
    \/ FetchJoin
    \/ \E c \in CitySet : FetchBegin(c)
    \/ \E c \in CitySet : GetForecasting(c)
    \/ \E c \in CitySet : SaveData(c)
    \/ Glob
    \/ CalcStart
    \/ CalcJoin
    \/ \E f \in DOMAIN calcPc : CalcBegin(f)
    \/ \E f \in DOMAIN calcPc : CalcRead(f)
    \/ \E f \in DOMAIN calcPc : CalcAnalyze(f)
    \/ AggStart
    \/ AggBegin
    \/ AggGlob
    \/ AggMerge
    \/ AggWrite
    \/ AggJoin
    \/ AnalyzingStart
    \/ SelBegin
    \/ SelLoad
    \/ SelStep
    \/ SelFinish
    \/ AnalyzingJoin

Spec == Init /\ [][Next]_vars

\* Every started thread and process is scheduled until it ends, and so is
\* the orchestrator.
FairSpec == Spec /\ WF_vars(Next)

\* --------------------------------- the selection stage on bounded datasets

\* City names of the datasets below, in key order.
DatasetCities ==
    << <<"MOSCOW">>, <<"PARIS">>, <<"LONDON">>, <<"BERLIN">>, <<"CAIRO">> >>

\* Day lists of the city-rich datasets: no day, no temperature at all, equal
\* averages with different and with equal hours, a higher, a fractional and
\* a negative average, and a negative count of hours (the schema asks for an
\* integer only).
WideDayLists ==
    { <<>>,
      << DayData(None, 5) >>,
      << DayData(Some(20), 3) >>,
      << DayData(Some(20), 5) >>,
      << DayData(Some(20), 2), DayData(None, 3) >>,
      << DayData(Some(19), 1), DayData(Some(21), 4) >>,
      << DayData(Some(21), 1) >>,
      << DayData(Some(20), 0), DayData(Some(21), 5) >>,
      << DayData(Some(-3), 0) >>,
      << DayData(Some(21), -1) >> }

\* The days of the day-rich datasets.
DeepDays ==
    { DayData(t, h) : t \in {None, Some(-3), Some(20), Some(21)},
                      h \in {0, 3} }

SeqsUpTo(S, n) == UNION { [1..k -> S] : k \in 0..n }

\* A dataset: its k-th key is the k-th city name.
DatasetOf(dayLists) ==
    [k \in DOMAIN dayLists |->
        [city |-> DatasetCities[k], data |-> CityData(dayLists[k])]]

\* Up to MaxCities cities with few days each, and one or two cities the first
\* of which has up to MaxDays days.
SelDatasets ==
    { DatasetOf(l) : l \in SeqsUpTo(WideDayLists, MaxCities) }
    \cup { DatasetOf(<<d>>) : d \in SeqsUpTo(DeepDays, MaxDays) }
    \cup { DatasetOf(<<d, << DayData(Some(20), 5) >> >>) :
              d \in SeqsUpTo(DeepDays, MaxDays) }

\* The log once the fetch stage has returned with an empty answer for every
\* city and main has announced the analysis stage.
LogAfterEmptyFetch ==
    {MainRecord("fetch"), MainRecord("calc")}
    \cup {StartingRecord("fetch", c) : c \in CitySet}

\* The log once the analysis stage has returned too, with no file to
\* analyse, and the aggregation thread has logged its start.
LogAtAggregation ==
    LogAfterEmptyFetch
    \cup {MainRecord("aggregate"), StartingRecord("aggregate", <<>>)}

\* The selection process has just logged its start on a dataset that the
\* aggregation of this run merged from the results directory (no city
\* answered the fetch; the analysis files were there before the run).
InitSel ==
    \E entries \in SelDatasets :
        /\ pc = "sel_join"
        /\ i = 1
        /\ fetchPc = [c \in CitySet |-> "finished"]
        /\ weather_data = [c \in CitySet |-> Empty]
        /\ dataDir = EmptyDir
        /\ dirs = {"data", "results"}
        /\ weather_files = <<>>
        /\ calcPc = [s \in {} |-> "new"]
        /\ calcData = [s \in {} |-> Unset]
        /\ resultsDir = [s \in {entries[k].city : k \in DOMAIN entries} |->
                            LET k == CHOOSE k \in DOMAIN entries :
                                        entries[k].city = s
                            IN  entries[k].data]
        /\ aggPc = "finished"
        /\ aggFiles = <<>>
        /\ aggregated_data = entries
        /\ aggregatedFile = JsonFile(entries)
        /\ selPc = "load"
        /\ cities = <<>>
        /\ idx = 0
        /\ best_cities = <<>>
        /\ max_avg_temp = NegInf
        /\ max_clear_hours = 0
        /\ days_count = 0
        /\ avg_temp = Unbound
        /\ total_clear_hours = 0
        /\ log = LogAtAggregation
                    \cup {LogRecord("info", "aggregate", <<>>, "Saved", <<>>),
                          MainRecord("select"), StartingRecord("select", <<>>)}

NextSel ==
    \/ SelLoad
    \/ SelStep
    \/ SelFinish
    \/ AnalyzingJoin

SpecSel == InitSel /\ [][NextSel]_vars

\* ------------------------------------------- what the selection must equal

RECURSIVE SumOver(_, _)
SumOver(f, S) ==
    IF S = {} THEN 0
    ELSE LET x == CHOOSE x \in S : TRUE
         IN  f[x] + SumOver(f, S \ {x})

\* The days of a list that carry a temperature.
DefinedDays(days) == {k \in DOMAIN days : days[k].temp_avg # None}

TempSum(days) ==
    SumOver([k \in DefinedDays(days) |-> days[k].temp_avg[1]], DefinedDays(days))

HoursSum(days) ==
    SumOver([k \in DOMAIN days |-> days[k].relevant_cond_hours], DOMAIN days)

\* The cities of the loaded dataset that have an average.
Candidates == {k \in DOMAIN cities : DefinedDays(cities[k].data.days) # {}}

\* (avg, hours) of city k is at most that of city m, lexicographically; the
\* averages are compared as sum / count by cross multiplication.
LexLeq(k, m) ==
    LET dk == cities[k].data.days
        dm == cities[m].data.days
        lhs == TempSum(dk) * Cardinality(DefinedDays(dm))
        rhs == TempSum(dm) * Cardinality(DefinedDays(dk))
    IN  \/ lhs < rhs
        \/ lhs = rhs /\ HoursSum(dk) <= HoursSum(dm)

LexMaxima == {k \in Candidates : \A m \in Candidates : LexLeq(m, k)}

\* The fraction q is sum / count of the dated temperatures of days.
IsAverageOf(q, days) ==
    /\ q.d > 0
    /\ q.n * Cardinality(DefinedDays(days)) = TempSum(days) * q.d

\* The city loop has run to its end.
PassDone ==
    \/ selPc = "loop" /\ idx = Len(cities)
    \/ \E r \in log : r.stage = "select" /\ r.kind = "Result"

\* The city loop has processed at least one city; Last is that city's days.
InPass == selPc \in {"loop", "finished"} /\ idx >= 1

LastDays == cities[idx].data.days

\* C5: after the pass best_cities holds exactly the cities that have an
\* average and whose (average, hours) is the lexicographic maximum over such
\* cities, each once; max_avg_temp and max_clear_hours are that maximum; and
\* best_cities is empty when no city has an average.
C5_LexicographicMaximum ==
    PassDone =>
        /\ Range(best_cities) = {cities[k].city : k \in LexMaxima}
        /\ Len(best_cities) = Cardinality(LexMaxima)
        /\ \A k \in LexMaxima :
              /\ IsAverageOf(max_avg_temp, cities[k].data.days)
              /\ max_clear_hours = HoursSum(cities[k].data.days)
        /\ Candidates = {} => best_cities = <<>>

\* Witness of C5: two cities tie at the maximum and a third has the same
\* average and fewer hours.
C5_Witness ==
    /\ PassDone
    /\ Len(best_cities) = 2
    /\ \E k \in Candidates \ LexMaxima :
          IsAverageOf(max_avg_temp, cities[k].data.days)

\* The three cities of the scenario: equal averages, hours(A) < hours(B) =
\* hours(C), in this order.
C6_Scenario ==
    /\ selPc \in {"loop", "finished"}
    /\ Len(cities) = 3
    /\ Candidates = {1, 2, 3}
    /\ LexLeq(1, 2) /\ LexLeq(2, 3) /\ LexLeq(3, 2)
    /\ IsAverageOf(TrueDiv(TempSum(cities[1].data.days),
                           Cardinality(DefinedDays(cities[1].data.days))),
                   cities[2].data.days)
    /\ HoursSum(cities[1].data.days) < HoursSum(cities[2].data.days)

\* C6: with equal averages and hours(A) < hours(B) = hours(C), processed in
\* the order A, B, C: after A the best is [A], processing B resets it to [B],
\* processing C appends C, and the final best is [B, C] with hours(B).
C6_OrderDependentTieScenario ==
    C6_Scenario =>
        /\ idx = 1 => best_cities = << cities[1].city >>
        /\ idx = 2 => best_cities = << cities[2].city >>
        /\ idx = 3 =>
              /\ best_cities = << cities[2].city, cities[3].city >>
              /\ max_clear_hours = HoursSum(cities[2].data.days)

\* Witness of C6: the scenario, with C processed.
C6_Witness == C6_Scenario /\ idx = 3 /\ Len(best_cities) = 2

\* The orders in which n cities can be processed.
Orders(n) == {p \in [1..n -> 1..n] : \A a, b \in 1..n : p[a] = p[b] => a = b}

\* A dataset with its entries in the order p.
Reorder(entries, p) == [k \in DOMAIN entries |-> entries[p[k]]]

\* The names best_cities holds after a pass over entries.
BestSetOf(entries) == Range(CityLoop(entries, Len(entries)).best_cities)

\* C7 as stated: some dataset, among the bounded ones and the one loaded, has
\* two processing orders of its cities that give different sets of best
\* cities.
C7_OrderDependent ==
    \E entries \in SelDatasets \cup {cities} : \E p \in Orders(Len(entries)) :
        BestSetOf(Reorder(entries, p)) # BestSetOf(entries)

\* C7 as amended: the set of names in best_cities after the pass, and the
\* two maxima, are the same for every processing order of the dataset's
\* cities; only the order of the names within best_cities follows the
\* processing order.
C7_OrderIndependent ==
    PassDone =>
        \A p \in Orders(Len(cities)) :
            LET r == CityLoop(Reorder(cities, p), Len(cities))
            IN  /\ Range(r.best_cities) = Range(best_cities)
                /\ r.max_avg_temp = max_avg_temp
                /\ r.max_clear_hours = max_clear_hours

\* Witness of C7: the scenario of C6 at its end, where another order of the
\* same cities passes through other intermediate sets and lists the same two
\* winners in another order.
C7_Witness ==
    /\ PassDone
    /\ C6_Scenario
    /\ Len(best_cities) = 2
    /\ \E p \in Orders(3) :
          /\ CityLoop(Reorder(cities, p), 3).best_cities # best_cities
          /\ CityLoop(Reorder(cities, p), 2).best_cities
                # CityLoop(cities, 2).best_cities

\* The next city of the loop, or the last one processed, has no day with a
\* temperature.
NextHasNoAverage ==
    /\ selPc = "loop"
    /\ idx < Len(cities)
    /\ DefinedDays(cities[idx + 1].data.days) = {}

\* C8: a city without any day carrying a temperature is never in best_cities,
\* and the loop step that processes it leaves best_cities, max_avg_temp and
\* max_clear_hours as they were.
C8_ZeroValidDayExcluded ==
    /\ [](\A j \in DOMAIN best_cities : \A k \in DOMAIN cities :
              cities[k].city = best_cities[j] => k \in Candidates)
    /\ [][NextHasNoAverage =>
              /\ best_cities' = best_cities
              /\ max_avg_temp' = max_avg_temp
              /\ max_clear_hours' = max_clear_hours]_vars

\* Witness of C8: the city just processed has no temperature and more hours
\* than the best, which an earlier city holds.
C8_Witness ==
    /\ InPass
    /\ idx >= 2
    /\ DefinedDays(LastDays) = {}
    /\ HoursSum(LastDays) > max_clear_hours
    /\ best_cities # <<>>

\* C9: for the city just processed, if it has a day with a temperature, the
\* average is the sum of the temperatures over those days divided by their
\* number, whatever days without temperature the list holds; and it is the
\* value max_avg_temp takes when the city becomes the best.
C9_AverageOverDefinedDays ==
    (InPass /\ DefinedDays(LastDays) # {}) =>
        /\ days_count = Cardinality(DefinedDays(LastDays))
        /\ IsAverageOf(avg_temp, LastDays)
        /\ IsAverageOf(avg_temp, SelectSeq(LastDays, LAMBDA d : d.temp_avg # None))
        /\ best_cities = << cities[idx].city >> => max_avg_temp = avg_temp

\* Witness of C9: a fractional average over two days with a day without
\* temperature between them.
C9_Witness ==
    /\ InPass
    /\ Len(LastDays) = 3
    /\ DefinedDays(LastDays) = {1, 3}
    /\ avg_temp.d = 2
    /\ best_cities = << cities[idx].city >>

\* C10: for the city just processed, the total of favorable hours is the sum
\* of relevant_cond_hours over all its days, those without temperature
\* included; and it is the value max_clear_hours takes when the city becomes
\* the best.
C10_HoursOverAllDays ==
    InPass =>
        /\ total_clear_hours = HoursSum(LastDays)
        /\ (best_cities = << cities[idx].city >> /\ DefinedDays(LastDays) # {})
              => max_clear_hours = total_clear_hours

\* Witness of C10: hours of a day without temperature are part of the total
\* that made the city the best.
C10_Witness ==
    /\ InPass
    /\ \E k \in DOMAIN LastDays :
          /\ LastDays[k].temp_avg = None
          /\ LastDays[k].relevant_cond_hours > 0
    /\ DefinedDays(LastDays) # {}
    /\ total_clear_hours > 5
    /\ best_cities = << cities[idx].city >>
    /\ max_clear_hours = total_clear_hours

\* --------------------------------------------------- what the stages keep

FetchDone == \A c \in CitySet : fetchPc[c] = "finished"

CalcDone == \A f \in DOMAIN calcPc : calcPc[f] = "finished"

\* run_data_fetching_tasks has returned.
FetchBarrierPassed == pc \notin {"fetch_start", "fetch_join"}

\* run_data_calculation_tasks has returned.
CalcBarrierPassed == pc \in {"agg_start", "agg_join", "sel_start", "sel_join", "done"}

Logged(stage, key, kinds) ==
    \E r \in log : r.stage = stage /\ r.key = key /\ r.kind \in kinds

\* C1: the discovery of the weather files and every analysis unit come after
\* the end of every fetch unit, the aggregation unit after the end of every
\* analysis unit, the selection unit after the end of the aggregation unit,
\* however the units ended.
C1_StageBarrier ==
    /\ (FetchBarrierPassed \/ \E f \in DOMAIN calcPc : calcPc[f] # "new")
          => FetchDone
    /\ pc = "fetch_start" \/ pc = "fetch_join" => weather_files = <<>>
    /\ aggPc # "new" => CalcBarrierPassed /\ CalcDone /\ FetchDone
    /\ selPc # "new" => aggPc = "finished" /\ CalcDone /\ FetchDone

\* Witness of C1: the selection runs after a fetch unit and an analysis unit
\* failed, another analysis unit saved its file and the aggregation ended.
C1_Witness ==
    /\ selPc = "loop"
    /\ \E c \in CitySet : Logged("fetch", c, {"Filesystem", "Uncaught"})
    /\ \E f \in DOMAIN calcPc : Logged("calc", f, {"JSON", "Other"})
    /\ \E f \in DOMAIN calcPc : Logged("calc", f, {"Saved"})

\* C2: once the fetch barrier is passed, if the unit of some city X failed,
\* every other city Y whose client call returned data and whose write did not
\* fail has its file, holding that data.
C2_FetchIsolation ==
    FetchBarrierPassed =>
        \A x \in CitySet :
            Logged("fetch", x, {"Filesystem", "Uncaught"}) =>
                \A y \in CitySet \ {x} :
                    (weather_data[y] \in RawForecasts
                        /\ ~Logged("fetch", y, {"Filesystem"}))
                    => (y \in DOMAIN dataDir /\ dataDir[y] = weather_data[y])

\* Witness of C2: past the barrier, the client call of one city raised (the
\* city has no answer and the handler logged the error) and another city
\* has its file.
C2_Witness ==
    /\ FetchBarrierPassed
    /\ \E x \in CitySet : \E y \in CitySet \ {x} :
          /\ Logged("fetch", x, {"Filesystem"})
          /\ weather_data[x] = Unset
          /\ Logged("fetch", y, {"Saved"})
          /\ y \in DOMAIN dataDir
          /\ dataDir[y] \in RawForecasts

\* The unit of file g meets no failure of its own: the file decodes, the
\* analysis accepts it and no filesystem error was logged for it.
CalcSucceeds(g) ==
    /\ dataDir[g] # Garbage
    /\ ~AnalyzeRaises(dataDir[g])
    /\ ~Logged("calc", g, {"Filesystem"})

\* C3: once the analysis barrier is passed, every unit that did not save its
\* output has an error logged under its file, and if the unit of some file F
\* failed, every other file G whose own read, analysis and write succeed has
\* its output, holding the analysis of G.
C3_AnalysisIsolation ==
    CalcBarrierPassed =>
        \A f \in DOMAIN calcPc :
            /\ ~Logged("calc", f, {"Saved"}) =>
                  Logged("calc", f, {"Filesystem", "JSON", "Other"})
            /\ Logged("calc", f, {"Filesystem", "JSON", "Other"}) =>
                  \A g \in DOMAIN calcPc \ {f} :
                      CalcSucceeds(g) =>
                          /\ OutputStem(g) \in DOMAIN resultsDir
                          /\ resultsDir[OutputStem(g)] = AnalyzeJson(dataDir[g])

\* Witness of C3: past the barrier, one file was malformed, the analysis of
\* another raised, and a third has its output.
C3_Witness ==
    /\ CalcBarrierPassed
    /\ \E f, g, h \in DOMAIN calcPc :
          /\ Logged("calc", f, {"JSON"})
          /\ Logged("calc", h, {"Other"})
          /\ Logged("calc", g, {"Saved"})
          /\ resultsDir[OutputStem(g)] = AnalyzeJson(dataDir[g])

\* main() has returned after the four stages ran.
PipelineDone ==
    /\ pc = "done"
    /\ FetchDone /\ CalcDone
    /\ aggPc = "finished"
    /\ selPc = "finished"

\* C4: when every started unit is scheduled until it ends, main() eventually
\* returns after running the four stages, whatever the units' outcomes.
C4_PipelineCompletes == <>PipelineDone

\* Witness of C4: main() has returned although every fetch unit, every
\* analysis unit, the aggregation and the selection failed.
C4_Witness ==
    /\ PipelineDone
    /\ \A c \in CitySet : Logged("fetch", c, {"Filesystem", "Uncaught"})
    /\ weather_files # <<>>
    /\ \A f \in DOMAIN calcPc : Logged("calc", f, {"Filesystem", "JSON", "Other"})
    /\ Logged("aggregate", <<>>, {"Filesystem", "JSON"})
    /\ Logged("select", <<>>, {"Filesystem", "JSON", "Validation"})

\* ------------------------------- the aggregation stage on bounded folders

\* Analysis files of the results folder: two of them share the part before
\* the first underscore.
AggStems == { <<"NEW", "_", "YORK">>, <<"NEW", "_", "DELHI">>, <<"PARIS">> }

\* What an analysis file can hold: an analysis, JSON of another shape, or a
\* file cut short.
AggContents ==
    { CityData(<< DayData(Some(20), 3) >>),
      CityData(<< DayData(Some(21), 1) >>),
      OtherResult,
      GarbageResult }

\* The aggregated file an earlier run left.
StaleAggregated ==
    JsonFile(<< [city |-> <<"OLD">>, data |-> CityData(<< DayData(Some(15), 4) >>)] >>)

\* The aggregation thread has just logged its start on a results folder that
\* holds any of the files above; the two earlier stages found nothing to do.
InitAgg ==
    /\ pc = "agg_join"
    /\ i = 1
    /\ fetchPc = [c \in CitySet |-> "finished"]
    /\ weather_data = [c \in CitySet |-> Empty]
    /\ dataDir = EmptyDir
    /\ dirs = {"data", "results"}
    /\ weather_files = <<>>
    /\ calcPc = [s \in {} |-> "new"]
    /\ calcData = [s \in {} |-> Unset]
    /\ \E stems \in SUBSET AggStems : resultsDir \in [stems -> AggContents]
    /\ aggPc = "glob"
    /\ aggFiles = <<>>
    /\ aggregated_data = <<>>
    /\ aggregatedFile \in {AbsentFile, StaleAggregated}
    /\ selPc = "new"
    /\ cities = <<>>
    /\ idx = 0
    /\ best_cities = <<>>
    /\ max_avg_temp = NegInf
    /\ max_clear_hours = 0
    /\ days_count = 0
    /\ avg_temp = Unbound
    /\ total_clear_hours = 0
    /\ log = LogAtAggregation

NextAgg ==
    \/ AggGlob
    \/ AggMerge
    \/ AggWrite
    \/ AggJoin

SpecAgg == InitAgg /\ [][NextAgg]_vars

\* ------------------------------------------ what the aggregation must keep

Keys(entries) == {entries[k].city : k \in DOMAIN entries}

ValueOf(entries, key) ==
    entries[CHOOSE k \in DOMAIN entries : entries[k].city = key].data

\* The glob has run; Merged is the set of files the loop has gone through.
AggLooping == aggPc \in {"merge", "finished"}

Merged == DOMAIN resultsDir \ Range(aggFiles)

\* This step merges the head of aggFiles.
MergesHead == aggPc = "merge" /\ aggFiles # <<>> /\ aggFiles' = Tail(aggFiles)

\* C11: while the files read decode, the mapping has one entry per derived
\* key (the part of the name before the first underscore) of the files gone
\* through, hence N entries for N files with pairwise distinct keys; merging
\* a file puts its content under its key and leaves every other value, so a
\* key holds the content of the last file processed with that key; and the
\* mapping saved after the last file is that mapping.
C11_MergeLastWins ==
    /\ [](AggLooping =>
            /\ Keys(aggregated_data) = {CityKey(f) : f \in Merged}
            /\ \A j, k \in DOMAIN aggregated_data :
                  aggregated_data[j].city = aggregated_data[k].city => j = k
            /\ Logged("aggregate", <<>>, {"Saved"}) =>
                  /\ aggFiles = <<>>
                  /\ aggregatedFile = JsonFile(aggregated_data))
    /\ [][MergesHead =>
            \A key \in Keys(aggregated_data') :
               ValueOf(aggregated_data', key) =
                  IF key = CityKey(Head(aggFiles))
                  THEN resultsDir[Head(aggFiles)]
                  ELSE ValueOf(aggregated_data, key)]_vars

\* Three files, two of them with one key and different contents, were merged
\* into two entries and saved.
C11_Witness ==
    /\ Logged("aggregate", <<>>, {"Saved"})
    /\ Cardinality(DOMAIN resultsDir) = 3
    /\ Len(aggregated_data) = 2
    /\ \E f, g \in DOMAIN resultsDir :
          /\ f # g
          /\ CityKey(f) = CityKey(g)
          /\ resultsDir[f] # resultsDir[g]
          /\ ValueOf(aggregated_data, CityKey(f)) = resultsDir[g]

\* ----------------------------------------------- what the selection keeps

\* The aggregated file decodes, and some value of it is not a city's days.
OffSchema ==
    /\ aggregatedFile.kind = "json"
    /\ \E k \in DOMAIN aggregatedFile.entries :
          aggregatedFile.entries[k].data.kind # "city"

\* The selection unit is past the load of the aggregated file.
SelLoaded == selPc \in {"loop", "finished"}

\* The loop over the cities never ran and no result was logged.
NoSelection ==
    /\ cities = <<>>
    /\ idx = 0
    /\ best_cities = <<>>
    /\ max_avg_temp = NegInf
    /\ max_clear_hours = 0
    /\ ~Logged("select", <<>>, {"Result"})

\* C12: on an aggregated file that decodes but is off the schema, the
\* selection unit ends at the load with an error logged (the validation
\* error when the file could be read), without any pass over the cities and
\* without a result; after the record of its start the validation error is
\* the unit's only record, it is logged by the unit's own handler, and the
\* unit has ended, so the join returns.
C12_ValidationFailureEnds ==
    /\ (SelLoaded /\ OffSchema) =>
          /\ selPc = "finished"
          /\ Logged("select", <<>>, {"Validation", "Filesystem"})
          /\ NoSelection
    /\ Logged("select", <<>>, {"Validation"}) =>
          /\ OffSchema
          /\ selPc = "finished"
          /\ NoSelection
          /\ \A r \in log : r.stage = "select" =>
                \/ r = StartingRecord("select", <<>>)
                \/ r.kind = "Validation" /\ r.level = "error"

\* main() returned after the selection unit rejected an aggregated file that
\* holds a value of another shape.
C12_Witness ==
    /\ pc = "done"
    /\ OffSchema
    /\ Logged("select", <<>>, {"Validation"})

\* The aggregation unit ended on a file it could not read or decode: that
\* file and those after it are still in aggFiles.
AbortedOnRead == aggPc = "finished" /\ aggFiles # <<>>

\* C13 as stated: after a read or decode failure the aggregation stage's
\* output, the aggregated file, holds the entries merged before the failing
\* file.
C13_PartialOutput ==
    AbortedOnRead =>
       /\ Logged("aggregate", <<>>, {"JSON", "Filesystem"})
       /\ aggregatedFile = JsonFile(aggregated_data)

\* C13, amended: a read or decode failure ends the aggregation at once, in
\* the unit's own handler and with the error logged; no further file is
\* merged afterwards; the mapping, which holds the entries merged before the
\* failing file, is never written: the aggregated file stays absent or as an
\* earlier run left it.
C13_AbortDiscardsPartial ==
    /\ [](AbortedOnRead =>
            /\ Logged("aggregate", <<>>, {"JSON", "Filesystem"})
            /\ \A r \in log : r.stage = "aggregate" =>
                  (r = StartingRecord("aggregate", <<>>) \/ r.level = "error")
            /\ Keys(aggregated_data) = {CityKey(f) : f \in Merged}
            /\ aggregatedFile \in {AbsentFile, StaleAggregated})
    /\ [][(aggPc = "merge" /\ aggFiles # <<>> /\ log' # log) =>
            /\ aggPc' = "finished"
            /\ UNCHANGED <<aggFiles, aggregated_data, aggregatedFile>>]_vars
    /\ [][AbortedOnRead =>
            /\ AbortedOnRead'
            /\ UNCHANGED <<aggFiles, aggregated_data, aggregatedFile>>]_vars

\* The second file of the glob was cut short: the first one is in the
\* mapping, the unit has ended and there is no aggregated file.
C13_Witness ==
    /\ AbortedOnRead
    /\ Logged("aggregate", <<>>, {"JSON"})
    /\ Len(aggregated_data) = 1
    /\ Cardinality(Merged) = 1
    /\ aggregatedFile = AbsentFile
    /\ pc = "sel_start"

\* -------------------------------------------------- what the stages leave

\* The file of stem c in directory dir is as it was before the step.
SameFile(dir, dirAfter, c) ==
    /\ c \in DOMAIN dirAfter <=> c \in DOMAIN dir
    /\ c \in DOMAIN dir => dirAfter[c] = dir[c]

\* C14: the step in which the client answers city c with nothing ends the
\* unit of c (its join returns) and changes no file, no directory and no log
\* record; from then on the unit stays ended, the file of c stays as it was,
\* and no error or traceback is ever logged for c.
C14_EmptyFetchIsSilent ==
    /\ [][\A c \in CitySet :
            (fetchPc[c] = "call" /\ weather_data'[c] = Empty) =>
               /\ fetchPc'[c] = "finished"
               /\ UNCHANGED <<dataDir, dirs, log>>]_vars
    /\ [][\A c \in CitySet :
            weather_data[c] = Empty =>
               /\ weather_data'[c] = Empty
               /\ SameFile(dataDir, dataDir', c)]_vars
    /\ [](\A c \in CitySet :
            weather_data[c] = Empty =>
               /\ ThreadJoined(c)
               /\ \A r \in log :
                     (r.stage = "fetch" /\ r.key = c) => r.level = "info")

\* Every city was answered with nothing on a first run: the fetch stage has
\* returned, ./data was never made and the log holds the records of the
\* starts only.
C14_Witness ==
    /\ pc = "calc_glob"
    /\ \A c \in CitySet : weather_data[c] = Empty
    /\ dataDir = EmptyDir
    /\ dirs = {}
    /\ log = LogAfterEmptyFetch

\* ---------------------------------- the analysis stage on bounded folders

\* Weather files of the data folder when the glob runs: any name matches
\* *_weather.json, names with "data" or "results" in them included
\* (mydata, myresults, database).
CalcStems == { <<"my", "data">>, <<"my", "results">>, <<"data", "base">> }

\* What a weather file can hold: a forecast the analyzer accepts, one it
\* rejects, or a file cut short.
CalcContents == { "rawOld", "rawOdd", Garbage }

\* The fetch stage has returned without saving anything, and the data folder
\* holds any of the files above.
InitCalc ==
    /\ pc = "calc_glob"
    /\ i = 1
    /\ fetchPc = [c \in CitySet |-> "finished"]
    /\ weather_data = [c \in CitySet |-> Empty]
    /\ \E stems \in SUBSET CalcStems : dataDir \in [stems -> CalcContents]
    /\ dirs = {"data"}
    /\ weather_files = <<>>
    /\ calcPc = [s \in {} |-> "new"]
    /\ calcData = [s \in {} |-> Unset]
    /\ resultsDir = EmptyResults
    /\ aggPc = "new"
    /\ aggFiles = <<>>
    /\ aggregated_data = <<>>
    /\ aggregatedFile = AbsentFile
    /\ selPc = "new"
    /\ cities = <<>>
    /\ idx = 0
    /\ best_cities = <<>>
    /\ max_avg_temp = NegInf
    /\ max_clear_hours = 0
    /\ days_count = 0
    /\ avg_temp = Unbound
    /\ total_clear_hours = 0
    /\ log = LogAfterEmptyFetch

NextCalc ==
    \/ Glob
    \/ CalcStart
    \/ CalcJoin
    \/ \E f \in DOMAIN calcPc : CalcBegin(f)
    \/ \E f \in DOMAIN calcPc : CalcRead(f)
    \/ \E f \in DOMAIN calcPc : CalcAnalyze(f)

SpecCalc == InitCalc /\ [][NextCalc]_vars

\* The units of a stage that are started and not ended.
FetchRunning(c) == fetchPc[c] \in {"begin", "call", "save"}

CalcRunning(f) == calcPc[f] \in {"begin", "read", "analyze"}

\* C15: no two units of a stage that run at the same time have the same
\* output path: two cities of the catalog have different weather files, and
\* two files of the glob have different analysis files.
C15_NoWriteContention ==
    /\ \A c, d \in CitySet :
          (FetchRunning(c) /\ FetchRunning(d) /\ c # d) => c # d
    /\ \A f, g \in DOMAIN calcPc :
          (CalcRunning(f) /\ CalcRunning(g) /\ f # g) =>
             OutputStem(f) # OutputStem(g)

\* ------------------------------------------------ what the barriers keep

\* The orchestrator is inside one of the four stage functions of main.py.
InFetchStage == pc \in {"fetch_start", "fetch_join"}

InCalcStage == pc \in {"calc_start", "calc_join"}

InAggStage == pc = "agg_join"

InSelStage == pc = "sel_join"

\* A unit, once started, only moves on, and it ends by a step of its own:
\* the orchestrator's position and loop index are not part of that step.
OnlyForward(before, after, order) ==
    /\ \E a, b \in DOMAIN order :
          order[a] = before /\ order[b] = after /\ a <= b
    /\ (before # "finished" /\ after = "finished") => UNCHANGED mainVars

\* C16: while some unit of a stage has not ended, no step takes the
\* orchestrator out of that stage and no unit of a later stage is started;
\* no step ends a unit other than the unit's own (no timeout, no
\* cancellation) and no unit is started again (no retry).  A unit that never
\* takes its step therefore keeps the orchestrator in the join for ever.
C16_HungUnitBlocksBarrier ==
    /\ [][(InFetchStage /\ ~FetchDone') => InFetchStage']_vars
    /\ [][(InCalcStage /\ ~CalcDone') => InCalcStage']_vars
    /\ [][(InAggStage /\ aggPc' # "finished") => InAggStage']_vars
    /\ [][(InSelStage /\ selPc' # "finished") => InSelStage']_vars
    /\ [](/\ ~FetchDone => (DOMAIN calcPc = {} /\ aggPc = "new" /\ selPc = "new")
          /\ ~CalcDone => (aggPc = "new" /\ selPc = "new")
          /\ aggPc # "finished" => selPc = "new")
    /\ [][/\ \A c \in CitySet :
               OnlyForward(fetchPc[c], fetchPc'[c],
                           <<"new", "begin", "call", "save", "finished">>)
          /\ \A f \in DOMAIN calcPc :
               /\ f \in DOMAIN calcPc'
               /\ OnlyForward(calcPc[f], calcPc'[f],
                              <<"new", "begin", "read", "analyze", "finished">>)
          /\ OnlyForward(aggPc, aggPc', <<"new", "begin", "glob", "merge", "finished">>)
          /\ OnlyForward(selPc, selPc', <<"new", "begin", "load", "loop", "finished">>)]_vars

\* The orchestrator waits in the join of the first fetch thread, which is
\* still in its client call, while the second thread has ended: no step of
\* the orchestrator is possible.
C16_Witness ==
    /\ pc = "fetch_join"
    /\ i = 1
    /\ fetchPc[CITIES[1]] = "call"
    /\ fetchPc[CITIES[2]] = "finished"
    /\ ~ENABLED FetchJoin
    /\ DOMAIN calcPc = {}

\* ------------------------------------------------------------- the fan-out

\* The units a start loop has started when its index is k.
StartedUpTo(tasks, k) == {tasks[j] : j \in 1..(k - 1)}

\* C17: there is one fetch unit per city of the catalog and, once the glob
\* has run, one analysis unit per weather file of ./data, however many;
\* during a start loop exactly the units before the loop index are started,
\* and when the first join of a stage begins every unit of the stage has
\* been started, so that all of them can run at once.
C17_FanOut ==
    /\ DOMAIN fetchPc = CitySet
    /\ Len(CITIES) = Cardinality(CitySet)
    /\ pc = "fetch_start" =>
          {c \in CitySet : fetchPc[c] # "new"} = StartedUpTo(CITIES, i)
    /\ pc = "fetch_join" => \A c \in CitySet : fetchPc[c] # "new"
    /\ pc \notin {"fetch_start", "fetch_join", "calc_glob"} =>
          /\ DOMAIN calcPc = DOMAIN dataDir
          /\ Range(weather_files) = DOMAIN dataDir
          /\ Len(weather_files) = Cardinality(DOMAIN dataDir)
    /\ pc = "calc_start" =>
          {f \in DOMAIN calcPc : calcPc[f] # "new"} = StartedUpTo(weather_files, i)
    /\ pc = "calc_join" => \A f \in DOMAIN calcPc : calcPc[f] # "new"

\* Both fetch units saved their file next to a stale one, and the three
\* analysis units are running at once while the orchestrator is at its
\* first join.
C17_Witness ==
    /\ pc = "calc_join"
    /\ i = 1
    /\ \A c \in CitySet : Logged("fetch", c, {"Saved"})
    /\ Cardinality(DOMAIN calcPc) = Len(CITIES) + 1
    /\ \A f \in DOMAIN calcPc : calcPc[f] = "read"

\* ------------------------------------------------------- the result record

\* The records of kind Result that the selection unit logged.
ResultRecords == {r \in log : r.stage = "select" /\ r.kind = "Result"}

\* C18 as stated: the result record carries the final best_cities together
\* with the winning average temperature and the winning hours.
C18_ResultCarriesMaxima ==
    \A r \in ResultRecords :
       /\ {"best_cities", "max_avg_temp", "max_clear_hours"} \subseteq DOMAIN r.detail
       /\ r.detail.best_cities = best_cities
       /\ r.detail.max_avg_temp = max_avg_temp
       /\ r.detail.max_clear_hours = max_clear_hours

\* C18, amended: once the loop has run over a valid dataset and the unit has
\* ended, there is exactly one result record, of level info, and it carries
\* the final best_cities and nothing else: neither max_avg_temp nor
\* max_clear_hours is logged.  The step that logs it ends the unit and hands
\* nothing over: the orchestrator and the values of the pass are unchanged.
C18_ResultCarriesNamesOnly ==
    /\ []((PassDone /\ selPc = "finished") =>
            /\ Cardinality(ResultRecords) = 1
            /\ \A r \in ResultRecords :
                  /\ r.level = "info"
                  /\ DOMAIN r.detail = {"best_cities"}
                  /\ r.detail.best_cities = best_cities)
    /\ [][(selPc = "loop" /\ selPc' = "finished") =>
            UNCHANGED <<mainVars, cities, idx, best_cities, max_avg_temp,
                        max_clear_hours>>]_vars

\* main() returned after a pass that ended with two cities tied at an
\* average of 20 and 3 hours: the record names the two cities.
C18_Witness ==
    /\ pc = "done"
    /\ Len(best_cities) = 2
    /\ max_avg_temp = TrueDiv(20, 1)
    /\ max_clear_hours = 3
    /\ \E r \in ResultRecords : r.detail.best_cities = best_cities

\* ------------------------------------------ the aggregated file on an abort

\* What the aggregated file can hold when main() is entered.
InitialAggregated == {fs.aggregated : fs \in InitialFiles}

\* C19: no step writes the aggregated file unless it ends the aggregation
\* with every file merged; so after a read or decode failure the file is
\* what it was when main() was entered and no save is logged, and the
\* selection unit that follows either loads that earlier content and runs
\* its pass on it, or finds no file and ends with a filesystem error and no
\* selection.
C19_AbortLeavesFile ==
    /\ [][(aggPc' # "finished" \/ AbortedOnRead') =>
            aggregatedFile' = aggregatedFile]_vars
    /\ [](AbortedOnRead =>
            /\ aggregatedFile \in InitialAggregated
            /\ ~Logged("aggregate", <<>>, {"Saved"})
            /\ (selPc = "loop" \/ ResultRecords # {}) =>
                  /\ aggregatedFile.kind = "json"
                  /\ cities = aggregatedFile.entries
            /\ (SelLoaded /\ aggregatedFile = AbsentFile) =>
                  /\ selPc = "finished"
                  /\ Logged("select", <<>>, {"Filesystem"})
                  /\ NoSelection)

\* The aggregation ended on a file it could not read after merging another
\* one, the aggregated file of an earlier run is still there, and the
\* selection ran on it: main() returned with the stale city as the result.
C19_Witness ==
    /\ pc = "done"
    /\ AbortedOnRead
    /\ aggregated_data # <<>>
    /\ aggregatedFile = StaleAggregated
    /\ cities = StaleAggregated.entries
    /\ \E r \in ResultRecords : r.detail.best_cities = << <<"OLD">> >>

\* --------------------------------------------- discovery by directory content

\* C20: the analysis units are the weather files that ./data holds once the
\* fetch stage has returned, each read as it stands there, and by the end of
\* the analysis stage each of them went through a unit, whoever wrote it;
\* the keys of the aggregated mapping come from the analysis files that
\* ./results holds once the analysis stage has returned.  Nothing ties
\* either set to the cities this run fetched.
C20_DiscoveryByDirectory ==
    /\ pc \notin {"fetch_start", "fetch_join", "calc_glob"} =>
          /\ DOMAIN calcPc = DOMAIN dataDir
          /\ \A f \in DOMAIN calcPc : calcData[f] \in {Unset, dataDir[f]}
    /\ CalcBarrierPassed =>
          \A f \in DOMAIN dataDir : \E r \in log : r.stage = "calc" /\ r.key = f
    /\ AggLooping =>
          Keys(aggregated_data) \cup {CityKey(f) : f \in Range(aggFiles)}
             = {CityKey(f) : f \in DOMAIN resultsDir}
    /\ Logged("aggregate", <<>>, {"Saved"}) =>
          /\ aggregatedFile.kind = "json"
          /\ Keys(aggregatedFile.entries) = {CityKey(f) : f \in DOMAIN resultsDir}

\* This run fetched nothing for the first city (an empty answer) and failed
\* on the second (the client call raised), yet the weather file an earlier run left
\* for the first city was analysed, aggregated and selected.
C20_Witness ==
    /\ pc = "done"
    /\ weather_data[CITIES[1]] = Empty
    /\ Logged("fetch", CITIES[2], {"Filesystem"})
    /\ weather_data[CITIES[2]] = Unset
    /\ dataDir = [s \in {CITIES[1]} |-> "rawOld"]
    /\ Logged("calc", CITIES[1], {"Saved"})
    /\ aggregatedFile =
          JsonFile(<< [city |-> CityKey(CITIES[1]), data |-> AnalyzeJson("rawOld")] >>)
    /\ \E r \in ResultRecords : r.detail.best_cities = << CityKey(CITIES[1]) >>

====
